---- MODULE Spec2Model ----
(***************************************************************************)
(* A model of gocui-relative-layout (src/layout.go): the tree of           *)
(* layoutLevel / layoutItem values, the mutations ToggleItem, HideItem and *)
(* ResizeItem, and the recursive allocation pass layoutLevel.layout with   *)
(* the createView / SetViewOnBottom calls it makes on the host.            *)
(*                                                                         *)
(* Spec takes every call as one step; SpecConc takes the pass of the root  *)
(* Level in steps that mutations from another goroutine interleave.        *)
(*                                                                         *)
(* Go slices are 0-based and TLA+ sequences 1-based: index i of the model  *)
(* is index i-1 of the code (lastVisible starts at 1 here, 0 there).       *)
(***************************************************************************)
EXTENDS Integers, Sequences, FiniteSets, TLC

\* ------------------------------------------------------------------ bounds
MaxSize == 1      \* ResizeItem is called with ratio and fixed in -1..MaxSize
MaxX == 4         \* g.Size() returns maxX in 1..MaxX
MaxY == 2         \* g.Size() returns maxY in 1..MaxY
MaxOps == 2       \* mutation calls in one behaviour

\* --------------------------------------------------------------- constants
LayoutHorizontal == TRUE
LayoutVertical == FALSE
LayoutHidden == TRUE
LayoutVisible == FALSE

Nil == "nil"
NotFound == "Item not found"
InvalidValues == "Fixes and Ratio parameters are not compatible"
TooSmallFixed == "window too small for fixed sizes"
TooSmallUnits == "window too small for allocated units"
HostError == "host error"

\* The integers a caller passes to ResizeItem as ratio and as fixed.
SizeVals == (-1)..MaxSize

\* ------------------------------------------------------------ construction
\* inner is <<>> for a nil *layoutLevel and <<level>> otherwise.
createNewItem(size, name, hidden, inner) ==
  [ratio  |-> IF size > 0 THEN size ELSE 0,
   fixed  |-> IF size < 0 THEN -size ELSE 0,
   name   |-> name,
   hidden |-> hidden,
   inner  |-> inner]

NewRatioItem(weight, name, hidden, inner) == createNewItem(weight, name, hidden, inner)

NewFixedItem(size, name, hidden, inner) == createNewItem(-size, name, hidden, inner)

NewLevel(direction, items) == [direction |-> direction, items |-> items]

\* ---------------------------------------------------------------- visibility
\* A faulty isHidden that looks at the item's own flag only.
isHiddenOwnFlagOnly(l) == l.hidden

RECURSIVE isHidden(_), allHidden(_)
isHidden(l) ==
  IF l.hidden THEN LayoutHidden
  ELSE IF l.inner # <<>> THEN allHidden(l.inner[1])
  ELSE LayoutVisible

allHidden(l) ==
  IF \E i \in 1..Len(l.items) : ~isHidden(l.items[i]) THEN LayoutVisible
  ELSE LayoutHidden

\* -------------------------------------------------------------------- lookup
\* findItem returns <<item>> for (item, nil) and <<>> for (nil, NotFound).
RECURSIVE findFrom(_, _, _)
findFrom(l, name, i) ==
  IF i > Len(l.items) THEN <<>>
  ELSE LET item == l.items[i] IN
       IF item.name = name THEN <<item>>
       ELSE LET found == IF item.inner # <<>> THEN findFrom(item.inner[1], name, 1)
                         ELSE <<>> IN
            IF found # <<>> THEN found ELSE findFrom(l, name, i + 1)

findItem(l, name) == findFrom(l, name, 1)

\* The write through the *layoutItem that findItem returned: the tree with
\* that item (the first match, depth first) replaced by new.
RECURSIVE storeFrom(_, _, _, _)
storeFrom(l, name, new, i) ==
  IF i > Len(l.items) THEN l
  ELSE LET item == l.items[i] IN
       IF item.name = name THEN [l EXCEPT !.items[i] = new]
       ELSE IF item.inner # <<>> /\ findFrom(item.inner[1], name, 1) # <<>>
            THEN [l EXCEPT !.items[i].inner = <<storeFrom(item.inner[1], name, new, 1)>>]
            ELSE storeFrom(l, name, new, i + 1)

store(l, name, new) == storeFrom(l, name, new, 1)

\* ---------------------------------------------------------------- arithmetic
\* Go's / and % truncate toward zero; \div and % of TLA+ round down.
GoDiv(a, b) ==
  IF (a >= 0) = (b > 0) THEN (IF a >= 0 THEN a ELSE -a) \div (IF b > 0 THEN b ELSE -b)
  ELSE -((IF a >= 0 THEN a ELSE -a) \div (IF b > 0 THEN b ELSE -b))

GoMod(a, b) == a - b * GoDiv(a, b)

\* ---------------------------------------------------------------------- host
\* The host's record of one pass: err is the error the pass returns (Nil for
\* none); views lists the createView calls in order, bottom telling whether
\* SetViewOnBottom followed; passes and slots record, for each call of
\* layout and each visible item it placed, what the pass computed.
NoHost == [err |-> Nil, views |-> <<>>, passes |-> <<>>, slots |-> <<>>]

\* createView fails when SetView or the item's callback does: g.failing
\* names the view for which the host returns an error.
createView(g, h, name, x0, y0, x1, y1, bottom) ==
  IF g.failing = name THEN [h EXCEPT !.err = HostError]
  ELSE [h EXCEPT !.views = Append(@, [name |-> name, x0 |-> x0, y0 |-> y0,
                                      x1 |-> x1, y1 |-> y1, bottom |-> bottom])]

\* ---------------------------------------------------------------- allocation
\* The first loop of layout: the visible fixed sizes and ratio weights.
RECURSIVE sumLoop(_, _, _, _)
sumLoop(l, forceHidden, i, s) ==
  IF i > Len(l.items) THEN s
  ELSE LET item == l.items[i] IN
       IF forceHidden \/ isHidden(item) THEN sumLoop(l, forceHidden, i + 1, s)
       ELSE sumLoop(l, forceHidden, i + 1,
                    [fixed |-> IF item.fixed > 0 THEN s.fixed + item.fixed ELSE s.fixed,
                     segments |-> IF item.fixed > 0 THEN s.segments
                                  ELSE s.segments + item.ratio,
                     lastVisible |-> i])

\* A faulty first loop that counts the hidden items too.
sumsHiddenToo(l, forceHidden) ==
  sumLoop([l EXCEPT !.items = [i \in DOMAIN l.items |->
                                 [l.items[i] EXCEPT !.hidden = FALSE, !.inner = <<>>]]],
          LayoutVisible, 1, [fixed |-> 0, segments |-> 0, lastVisible |-> 1])

sums(l, forceHidden) ==
  sumLoop(l, forceHidden, 1, [fixed |-> 0, segments |-> 0, lastVisible |-> 1])

axisLength(l, x0, y0, x1, y1) ==
  IF l.direction = LayoutHorizontal THEN x1 - x0 + 1 ELSE y1 - y0 + 1

\* A faulty pair of checks that lets the fixed sizes exceed the length.
tooSmallUnitsOnly(length, fixed, unit) ==
  IF unit = 0 THEN TooSmallUnits ELSE Nil

\* The two checks between the loops: the error layout returns there.
tooSmall(length, fixed, unit) ==
  IF length < fixed THEN TooSmallFixed
  ELSE IF unit = 0 THEN TooSmallUnits ELSE Nil

\* What layout has computed when its second loop starts: the rectangle and
\* flag it was called with, its sums, unit and left, and p.err, the error it
\* returns before that loop (Nil for none). p.items lists, for each item, its
\* name, sizes and whether the first loop counted it as visible.
plan(l, g, x0, y0, x1, y1, forceHidden) ==
  LET s == sums(l, forceHidden)
      length == axisLength(l, x0, y0, x1, y1)
      rest == length - s.fixed
      unit == IF s.segments > 0 THEN GoDiv(rest, s.segments) ELSE -1
      left == IF s.segments > 0 THEN GoMod(rest, s.segments) ELSE -1
  IN [items |-> [i \in 1..Len(l.items) |->
                   [name |-> l.items[i].name, ratio |-> l.items[i].ratio,
                    fixed |-> l.items[i].fixed,
                    visible |-> ~(forceHidden \/ isHidden(l.items[i]))]],
      direction |-> l.direction,
      x0 |-> x0, y0 |-> y0, x1 |-> x1, y1 |-> y1,
      forceHidden |-> forceHidden,
      overlap |-> IF ~g.SupportOverlaps THEN 1 ELSE 0,
      length |-> length, fixed |-> s.fixed, segments |-> s.segments,
      lastVisible |-> s.lastVisible, unit |-> unit, left |-> left,
      err |-> tooSmall(length, s.fixed, unit)]

\* A faulty assignment that drops the leftovers.
assignmentNoLeft(item, p, idx) ==
  IF item.fixed = 0 THEN p.unit * item.ratio ELSE item.fixed

assignment(item, p, idx) ==
  (IF item.fixed = 0 THEN p.unit * item.ratio ELSE item.fixed)
  + (IF idx = p.lastVisible THEN p.left ELSE 0)

\* A faulty slot that ignores the overlap correction.
slotNoOverlap(item, p, idx, acc) ==
  LET a == assignment(item, p, idx)
      end == acc + a
  IN IF p.direction = LayoutHorizontal
     THEN [x0 |-> acc, x1 |-> IF end > p.x1 THEN p.x1 ELSE end, y0 |-> p.y0, y1 |-> p.y1]
     ELSE [x0 |-> p.x0, x1 |-> p.x1, y0 |-> acc, y1 |-> IF end > p.y1 THEN p.y1 ELSE end]

\* The rectangle the second loop gives a visible item at cursor acc.
slot(item, p, idx, acc) ==
  LET a == assignment(item, p, idx)
      end == acc + a - p.overlap
  IN IF p.direction = LayoutHorizontal
     THEN [x0 |-> acc, x1 |-> IF end > p.x1 THEN p.x1 ELSE end, y0 |-> p.y0, y1 |-> p.y1]
     ELSE [x0 |-> p.x0, x1 |-> p.x1, y0 |-> acc, y1 |-> IF end > p.y1 THEN p.y1 ELSE end]

RECURSIVE layout(_, _, _, _, _, _, _, _), assignLoop(_, _, _, _, _, _, _)

\* A faulty hidden branch that leaves the view where SetView put it.
hiddenItemNotBottom(item, g, p, h) ==
  IF item.inner # <<>>
  THEN layout(item.inner[1], g, p.x0, p.y0, p.x1, p.y1, LayoutHidden, h)
  ELSE createView(g, h, item.name, p.x0, p.y0, p.x1, p.y1, FALSE)

\* The branch of the second loop for a hidden item: its sub-level laid out
\* hidden, or its view created and moved to the bottom, over the rectangle
\* of this level.
hiddenItem(item, g, p, h) ==
  IF item.inner # <<>>
  THEN layout(item.inner[1], g, p.x0, p.y0, p.x1, p.y1, LayoutHidden, h)
  ELSE createView(g, h, item.name, p.x0, p.y0, p.x1, p.y1, TRUE)

\* One iteration of the second loop, for item idx at cursor acc:
\* [h |-> the host afterwards, acc |-> the cursor afterwards]. lvl is the
\* place of this call of layout in h.passes.
assignItem(l, g, p, lvl, idx, acc, h) ==
  LET item == l.items[idx] IN
  IF p.forceHidden \/ isHidden(item)
  THEN [acc |-> acc, h |-> hiddenItem(item, g, p, h)]
  ELSE LET a == assignment(item, p, idx)
           r == slot(item, p, idx, acc)
           h1 == [h EXCEPT !.slots = Append(@, [name |-> item.name, lvl |-> lvl,
                                                 fixed |-> item.fixed,
                                                 ratio |-> item.ratio, assignment |-> a,
                                                 x0 |-> r.x0, y0 |-> r.y0,
                                                 x1 |-> r.x1, y1 |-> r.y1])]
       IN [acc |-> acc + a,
           h |-> IF item.inner # <<>>
                 THEN layout(item.inner[1], g, r.x0, r.y0, r.x1, r.y1, LayoutVisible, h1)
                 ELSE createView(g, h1, item.name, r.x0, r.y0, r.x1, r.y1, FALSE)]

assignLoop(l, g, p, lvl, idx, acc, h) ==
  IF idx > Len(l.items) THEN h
  ELSE LET n == assignItem(l, g, p, lvl, idx, acc, h) IN
       IF n.h.err # Nil THEN n.h
       ELSE assignLoop(l, g, p, lvl, idx + 1, n.acc, n.h)

layout(l, g, x0, y0, x1, y1, forceHidden, h) ==
  LET p == plan(l, g, x0, y0, x1, y1, forceHidden)
      h1 == [h EXCEPT !.passes = Append(@, p)]
      acc == IF l.direction = LayoutHorizontal THEN x0 ELSE y0
  IN IF p.err # Nil THEN [h1 EXCEPT !.err = p.err]
     ELSE assignLoop(l, g, p, Len(h1.passes), 1, acc, h1)

\* --------------------------------------------------------------------- state
VARIABLES
  root,   \* the *layoutLevel handed to gocui's SetManager
  gui,    \* the host: SupportOverlaps, fixed when the Gui is created
  ops,    \* mutation calls made so far
  ret,    \* the last call that returned: a mutation or Layout, its error, and
          \* for Layout its arguments and host record
  pc,     \* "idle", or "assign" while a pass of root is between its two loops
          \* or inside the second
  cur     \* that pass: its arguments, plan, next index, cursor and host record

vars == <<root, gui, ops, ret, pc, cur>>

Names == {"a", "b", "c", "d", "e"}
Unknown == "zz"
AllNames == Names \cup {Unknown}

\* What g.Size() returns and the view whose createView the host fails
\* (Unknown: none). A failing host is explored at the largest screen.
LayoutArgs ==
  {[maxX |-> x, maxY |-> y, failing |-> Unknown] : x \in 1..MaxX, y \in 1..MaxY}
  \cup {[maxX |-> MaxX, maxY |-> MaxY, failing |-> "c"]}

\* A tree nested as the README's example is: a | b{ c / d{ e } }, its items
\* built by createNewItem from signed sizes.
Build(sa, sb, sc, sd, se) ==
  NewLevel(LayoutHorizontal,
    << createNewItem(sa, "a", FALSE, <<>>),
       createNewItem(sb, "b", FALSE,
         << NewLevel(LayoutVertical,
              << createNewItem(sc, "c", FALSE, <<>>),
                 createNewItem(sd, "d", FALSE,
                   << NewLevel(LayoutHorizontal,
                        << createNewItem(se, "e", FALSE, <<>>) >>) >>) >>) >>) >>)

NoArgs == [maxX |-> 0, maxY |-> 0, failing |-> Unknown]
\* What a mutation returned: its error, and in shown the name of the item
\* whose hidden flag it cleared (Unknown when it cleared none).
Returned(err, shown) ==
  [op |-> "Mutation", err |-> err, shown |-> shown, args |-> NoArgs,
   host |-> NoHost, raced |-> FALSE]
Rendered(err, args, host, raced) ==
  [op |-> "Layout", err |-> err, shown |-> Unknown, args |-> args, host |-> host,
   raced |-> raced]
NoPass == [args |-> NoArgs, p |-> <<>>, idx |-> 0, acc |-> 0, host |-> NoHost,
           raced |-> FALSE]

\* NewRatioItem(1, "a"), NewRatioItem(2, "b", WithInner(..)), NewFixedItem(1, "c"),
\* NewRatioItem(1, "d", WithInner(..)), NewRatioItem(1, "e").
Init ==
  /\ root = Build(1, 2, -1, 1, 1)
  /\ gui \in [SupportOverlaps : BOOLEAN]
  /\ ops = 0
  /\ ret = Returned(Nil, Unknown)
  /\ pc = "idle"
  /\ cur = NoPass

\* The three mutations as the method computes them on tree l: the error
\* returned and the tree afterwards.
toggleItem(l, name) ==
  LET i == findItem(l, name) IN
  IF i = <<>> THEN [err |-> NotFound, l |-> l]
  ELSE [err |-> Nil, l |-> store(l, name, [i[1] EXCEPT !.hidden = ~i[1].hidden])]

hideItem(l, name, hidden) ==
  LET i == findItem(l, name) IN
  IF i = <<>> THEN [err |-> NotFound, l |-> l]
  ELSE [err |-> Nil, l |-> store(l, name, [i[1] EXCEPT !.hidden = hidden])]

\* A faulty ResizeItem that assigns before it validates.
resizeItemAssignFirst(l, name, ratio, fixed) ==
  LET i == findItem(l, name) IN
  IF i = <<>> THEN [err |-> NotFound, l |-> l]
  ELSE [err |-> IF ratio # 0 /\ fixed # 0 THEN InvalidValues ELSE Nil,
        l |-> store(l, name, [i[1] EXCEPT !.ratio = ratio, !.fixed = fixed])]

resizeItem(l, name, ratio, fixed) ==
  LET i == findItem(l, name) IN
  IF i = <<>> THEN [err |-> NotFound, l |-> l]
  ELSE IF ratio # 0 /\ fixed # 0 THEN [err |-> InvalidValues, l |-> l]
  ELSE [err |-> Nil, l |-> store(l, name, [i[1] EXCEPT !.ratio = ratio, !.fixed = fixed])]

\* The call returns o: the tree and ret afterwards.
Mutated(name, o) ==
  /\ ops' = ops + 1
  /\ UNCHANGED gui
  /\ root' = o.l
  /\ ret' = Returned(o.err,
                     IF /\ o.err = Nil
                        /\ findItem(root, name)[1].hidden
                        /\ ~findItem(o.l, name)[1].hidden
                     THEN name ELSE Unknown)

ToggleItem(name) == Mutated(name, toggleItem(root, name))

HideItem(name, hidden) == Mutated(name, hideItem(root, name, hidden))

ResizeItem(name, ratio, fixed) == Mutated(name, resizeItem(root, name, ratio, fixed))

Gui(failing) == [SupportOverlaps |-> gui.SupportOverlaps, failing |-> failing]

\* Layout, run to its end with no other call in between. g.Size() returns
\* (args.maxX, args.maxY).
Layout(args) ==
  /\ LET h == layout(root, Gui(args.failing), 0, 0, args.maxX - 1, args.maxY - 1,
                     LayoutVisible, NoHost)
     IN ret' = Rendered(h.err, args, h, FALSE)
  /\ UNCHANGED <<root, gui, ops>>

\* Layout reads the tree and writes none of it, and every call overwrites
\* ret: whatever a behaviour reaches, it reaches with its passes left out but
\* the last. So the behaviours explored make up to MaxOps mutation calls and
\* then one pass.
Next ==
  \/ /\ ops < MaxOps /\ ret.op # "Layout"
     /\ \E n \in AllNames : ToggleItem(n)
     /\ UNCHANGED <<pc, cur>>
  \/ /\ ops < MaxOps /\ ret.op # "Layout"
     /\ \E n \in AllNames : \E hid \in BOOLEAN : HideItem(n, hid)
     /\ UNCHANGED <<pc, cur>>
  \/ /\ ops < MaxOps /\ ret.op # "Layout"
     /\ \E n \in AllNames : \E r \in SizeVals : \E f \in SizeVals : ResizeItem(n, r, f)
     /\ UNCHANGED <<pc, cur>>
  \/ /\ ret.op # "Layout"
     /\ \E args \in LayoutArgs : Layout(args)
     /\ UNCHANGED <<pc, cur>>

Spec == Init /\ [][Next]_vars

\* ------------------------------------------------- a pass that others interleave
\* The tree has no lock: ToggleItem, HideItem and ResizeItem called from
\* another goroutine run between the steps of a pass. The pass of root is
\* taken in steps: its first loop with the two checks that follow it, then
\* one iteration of its second loop at a time, each reading the tree as it
\* is at that step. The passes of the sub-levels run within one iteration.
BeginLayout(args) ==
  /\ pc = "idle"
  /\ LET p == plan(root, Gui(args.failing), 0, 0, args.maxX - 1, args.maxY - 1,
                   LayoutVisible)
         h == [NoHost EXCEPT !.passes = <<p>>]
     IN IF p.err # Nil
        THEN /\ ret' = Rendered(p.err, args, [h EXCEPT !.err = p.err], FALSE)
             /\ UNCHANGED <<pc, cur>>
        ELSE /\ pc' = "assign"
             /\ cur' = [args |-> args, p |-> p, idx |-> 1,
                        acc |-> IF root.direction = LayoutHorizontal THEN p.x0 ELSE p.y0,
                        host |-> h, raced |-> FALSE]
             /\ UNCHANGED ret
  /\ UNCHANGED <<root, gui, ops>>

AssignStep ==
  /\ pc = "assign"
  /\ IF cur.idx > Len(root.items)
     THEN /\ ret' = Rendered(Nil, cur.args, cur.host, cur.raced)
          /\ pc' = "idle"
          /\ cur' = NoPass
     ELSE LET n == assignItem(root, Gui(cur.args.failing), cur.p, 1, cur.idx,
                              cur.acc, cur.host)
          IN IF n.h.err # Nil
             THEN /\ ret' = Rendered(n.h.err, cur.args, n.h, cur.raced)
                  /\ pc' = "idle"
                  /\ cur' = NoPass
             ELSE /\ cur' = [cur EXCEPT !.idx = @ + 1, !.acc = n.acc, !.host = n.h]
                  /\ UNCHANGED <<ret, pc>>
  /\ UNCHANGED <<root, gui, ops>>

\* The items of the Level whose pass is taken in steps.
RootNames == {root.items[i].name : i \in DOMAIN root.items}

\* A mutation from another goroutine: it races the pass when one is running.
Raced == /\ cur' = IF pc = "assign" THEN [cur EXCEPT !.raced = TRUE] ELSE cur
         /\ UNCHANGED pc

NextConc ==
  \/ /\ ops < MaxOps /\ (pc = "assign" \/ ret.op # "Layout")
     /\ \E n \in RootNames : ToggleItem(n)
     /\ Raced
  \/ /\ ops < MaxOps /\ (pc = "assign" \/ ret.op # "Layout")
     /\ \E n \in RootNames : \E hid \in BOOLEAN : HideItem(n, hid)
     /\ Raced
  \/ /\ ops < MaxOps /\ (pc = "assign" \/ ret.op # "Layout")
     /\ \E n \in RootNames : \E r \in SizeVals : \E f \in SizeVals : ResizeItem(n, r, f)
     /\ Raced
  \/ /\ ret.op # "Layout"
     /\ \E args \in LayoutArgs : BeginLayout(args)
  \/ AssignStep

SpecConc == Init /\ [][NextConc]_vars

\* ================================================================ properties
Range(q) == {q[i] : i \in DOMAIN q}

RECURSIVE AllItems(_), LeafItems(_), UncoveredLeaves(_)
\* Every item of the tree under l.
AllItems(l) ==
  UNION {{it} \cup (IF it.inner # <<>> THEN AllItems(it.inner[1]) ELSE {}) :
         it \in Range(l.items)}

\* The items under l that wrap no sub-level.
LeafItems(l) ==
  UNION {IF it.inner # <<>> THEN LeafItems(it.inner[1]) ELSE {it} :
         it \in Range(l.items)}

\* The names of the leaves under l that are reached from l through items
\* whose hidden flag is clear, and whose own flag is clear.
UncoveredLeaves(l) ==
  UNION {IF it.hidden THEN {}
         ELSE IF it.inner # <<>> THEN UncoveredLeaves(it.inner[1])
         ELSE {it.name} : it \in Range(l.items)}

LeafNames(l) == {it.name : it \in LeafItems(l)}
Wrappers(l) == {it \in AllItems(l) : it.inner # <<>>}
Item(l, name) == findItem(l, name)[1]

RECURSIVE SumOver(_, _)
SumOver(S, f) ==
  IF S = {} THEN 0
  ELSE LET x == CHOOSE x \in S : TRUE IN f[x] + SumOver(S \ {x}, f)

\* The last call that returned was a pass; it returned no error.
PassReturned == ret.op = "Layout"
PassDone == PassReturned /\ ret.err = Nil

Passes == ret.host.passes
Slots == ret.host.slots
Views == ret.host.views

\* The slots and the claims the k-th call of layout gave its visible items.
SlotsOf(k) == {j \in DOMAIN Slots : Slots[j].lvl = k}
ClaimSum(k) == SumOver(SlotsOf(k), [j \in DOMAIN Slots |-> Slots[j].assignment])
SlotOf(k, name) == Slots[CHOOSE j \in SlotsOf(k) : Slots[j].name = name]

\* Read off the rectangle and items a call of layout was handed, not off
\* what it computed: its axis length, its start and end along the axis, the
\* items it must treat as visible, their fixed sizes and weights.
AxisLen(p) == IF p.direction = LayoutHorizontal THEN p.x1 - p.x0 + 1 ELSE p.y1 - p.y0 + 1
AxisStart(p) == IF p.direction = LayoutHorizontal THEN p.x0 ELSE p.y0
AxisEnd(p) == IF p.direction = LayoutHorizontal THEN p.x1 ELSE p.y1
VisibleIdx(p) == {i \in DOMAIN p.items : p.items[i].visible}
FixedSum(p) ==
  SumOver({i \in VisibleIdx(p) : p.items[i].fixed > 0},
          [i \in DOMAIN p.items |-> p.items[i].fixed])
WeightSum(p) == SumOver(DOMAIN p.items, [i \in DOMAIN p.items |-> p.items[i].ratio])
AllVisibleRatio(p) ==
  /\ Len(p.items) >= 1
  /\ \A i \in DOMAIN p.items :
       p.items[i].visible /\ p.items[i].fixed = 0 /\ p.items[i].ratio > 0

\* -------------------------------------------------------------------- C1
\* C1: on every successful pass, each visible item with a fixed size f is
\* assigned exactly f cells, wherever it stands and whatever else the Level
\* holds. The code adds left to the last visible item, fixed or not, and left
\* is -1 when no ratio item is visible: this fails.
C1_FixedItemGetsItsSize ==
  PassDone =>
    \A j \in DOMAIN Slots : Slots[j].fixed > 0 => Slots[j].assignment = Slots[j].fixed

\* -------------------------------------------------------------------- C2
FillsLength(k) ==
  LET p == Passes[k]
      n == Len(p.items)
      L == AxisLen(p)
      W == WeightSum(p)
  IN /\ p.err = Nil
     /\ PassDone =>
          /\ ClaimSum(k) = L
          /\ SlotOf(k, p.items[n].name).assignment = (L \div W) * p.items[n].ratio + (L % W)

\* C2 as claimed: a Level of n visible ratio items handed a length L >= n
\* raises no error, its claims sum to L and the last claim is
\* floor(L/sum(w))*w_last + L mod sum(w). Weights 1 and 2 over 2 cells give
\* unit 0: this fails.
C2_RatioLevelFillsLength ==
  PassReturned =>
    \A k \in DOMAIN Passes :
      AllVisibleRatio(Passes[k]) /\ AxisLen(Passes[k]) >= Len(Passes[k].items)
        => FillsLength(k)

\* C2, amended: a Level of visible ratio items handed a length L >= sum(w)
\* raises no error, and when the pass completes its claims sum to L and the
\* last claim is floor(L/sum(w))*w_last + L mod sum(w).
C2_RatioLevelFillsLengthFromWeightSum ==
  PassReturned =>
    \A k \in DOMAIN Passes :
      AllVisibleRatio(Passes[k]) /\ AxisLen(Passes[k]) >= WeightSum(Passes[k])
        => FillsLength(k)

\* A completed pass with a Level of two ratio items and a remainder to absorb.
C2_Witness ==
  /\ PassDone
  /\ \E k \in DOMAIN Passes :
       /\ AllVisibleRatio(Passes[k]) /\ Len(Passes[k].items) >= 2
       /\ AxisLen(Passes[k]) >= WeightSum(Passes[k])
       /\ AxisLen(Passes[k]) % WeightSum(Passes[k]) > 0

\* -------------------------------------------------------------------- C3
\* C3 as claimed: when the visible fixed sizes of any Level exceed the length
\* it is handed, Layout returns an error and no view at all has been
\* created. The views of the items before a failing sub-level are created
\* before it is entered: this fails.
C3_FixedOverflowCreatesNothing ==
  PassReturned =>
    \A k \in DOMAIN Passes :
      FixedSum(Passes[k]) > AxisLen(Passes[k]) => ret.err # Nil /\ Views = <<>>

\* C3, amended: when the visible fixed sizes of a Level exceed the length it
\* is handed, Layout returns the too-small-for-fixed-sizes error, that Level
\* is the last one entered and none of its items has a view created; when it
\* is the root Level no view at all has been created.
C3_FixedOverflowFailsThePass ==
  PassReturned =>
    \A k \in DOMAIN Passes :
      FixedSum(Passes[k]) > AxisLen(Passes[k]) =>
        /\ ret.err = TooSmallFixed
        /\ k = Len(Passes)
        /\ \A v \in DOMAIN Views : \A i \in DOMAIN Passes[k].items :
             Views[v].name # Passes[k].items[i].name
        /\ k = 1 => Views = <<>>

\* A pass that failed in a sub-level after views were created.
C3_Witness ==
  /\ PassReturned
  /\ \E k \in DOMAIN Passes :
       k > 1 /\ FixedSum(Passes[k]) > AxisLen(Passes[k]) /\ Views # <<>>

\* -------------------------------------------------------------------- C4
AllLeavesFlagged(l) == \A lf \in LeafItems(l) : lf.hidden

\* C4 as claimed: a wrapped sub-level is allHidden iff every leaf in it has
\* its own flag set, and showing one leaf of an all-hidden sub-level makes
\* the wrapping item's isHidden visible. An item whose own flag is set is
\* hidden whatever it wraps: this fails.
C4_AllHiddenIffLeavesFlagged ==
  [][/\ \A w \in Wrappers(root) \cup Wrappers(root') :
          allHidden(w.inner[1]) <=> AllLeavesFlagged(w.inner[1])
     /\ \A w \in Wrappers(root) : \A n \in LeafNames(w.inner[1]) :
          /\ allHidden(w.inner[1])
          /\ ToggleItem(n) \/ HideItem(n, LayoutVisible)
          /\ ~Item(root', n).hidden
          => ~isHidden(Item(root', w.name))]_vars

\* C4, amended: a wrapped sub-level is allHidden iff every leaf in it has its
\* own flag set or lies under an item of the sub-level whose flag is set;
\* showing one leaf of an all-hidden sub-level makes the wrapping item's
\* isHidden visible when neither the wrapping item nor an item between it
\* and the leaf has its flag set.
C4_AllHiddenIffLeavesCovered ==
  [][/\ \A w \in Wrappers(root) \cup Wrappers(root') :
          allHidden(w.inner[1]) <=> UncoveredLeaves(w.inner[1]) = {}
     /\ \A w \in Wrappers(root) : \A n \in LeafNames(w.inner[1]) :
          /\ allHidden(w.inner[1])
          /\ ToggleItem(n) \/ HideItem(n, LayoutVisible)
          /\ ~Item(root', w.name).hidden
          /\ n \in UncoveredLeaves(Item(root', w.name).inner[1])
          => ~isHidden(Item(root', w.name))]_vars

\* The call that returned last cleared the flag of "e", the one leaf under
\* "d", and "d" is visible again.
C4_Witness ==
  /\ ret.op = "Mutation" /\ ret.shown = "e"
  /\ ~isHidden(Item(root, "d"))

\* -------------------------------------------------------------------- C5
\* C5: after construction and any calls of ToggleItem, HideItem and
\* ResizeItem, every item has exactly one of fixed and ratio non-zero.
\* ResizeItem(name, 0, 0) is accepted and clears both: this fails.
C5_ExactlyOneSizeSet ==
  \A it \in AllItems(root) : (it.ratio # 0) # (it.fixed # 0)

\* -------------------------------------------------------------------- C7
\* C7: on every tree the mutations reach, ToggleItem, HideItem and
\* ResizeItem with a name no item carries return NotFound, ResizeItem with
\* ratio and fixed both non-zero returns InvalidValues, and every call that
\* returns an error leaves the tree, so the hidden flag, ratio and fixed of
\* every item, as it was. (A pass changes no tree: the trees of the states
\* in which a pass returned are those of the states before it.)
C7_FailingMutationChangesNothing ==
  ret.op = "Mutation" =>
    \A n \in AllNames :
      LET unknown == findItem(root, n) = <<>>
          Fails(o, both) ==
            /\ unknown => o.err = NotFound
            /\ ~unknown /\ both => o.err = InvalidValues
            /\ o.err # Nil => o.l = root
      IN /\ Fails(toggleItem(root, n), FALSE)
         /\ \A hid \in BOOLEAN : Fails(hideItem(root, n, hid), FALSE)
         /\ \A r \in SizeVals : \A f \in SizeVals :
              Fails(resizeItem(root, n, r, f), r # 0 /\ f # 0)

\* A ResizeItem with both arguments non-zero has returned, after a call
\* that changed the tree.
C7_Witness ==
  /\ ret.op = "Mutation" /\ ret.err = InvalidValues
  /\ root # Build(1, 2, -1, 1, 1)

\* -------------------------------------------------------------------- C6
\* The tree with its effectively hidden items deleted, at every depth.
RECURSIVE Pruned(_), PrunedFrom(_, _)
PrunedFrom(q, i) ==
  IF i > Len(q) THEN <<>>
  ELSE IF isHidden(q[i]) THEN PrunedFrom(q, i + 1)
  ELSE << IF q[i].inner # <<>>
          THEN [q[i] EXCEPT !.inner = <<Pruned(q[i].inner[1])>>]
          ELSE q[i] >> \o PrunedFrom(q, i + 1)
Pruned(l) == [l EXCEPT !.items = PrunedFrom(l.items, 1)]

\* Where a host record puts each visible item, and each view not moved to
\* the bottom.
Placed(h) ==
  {[name |-> h.slots[j].name, x0 |-> h.slots[j].x0, y0 |-> h.slots[j].y0,
    x1 |-> h.slots[j].x1, y1 |-> h.slots[j].y1] : j \in DOMAIN h.slots}
Shown(h) ==
  {[name |-> h.views[j].name, x0 |-> h.views[j].x0, y0 |-> h.views[j].y0,
    x1 |-> h.views[j].x1, y1 |-> h.views[j].y1] :
     j \in {v \in DOMAIN h.views : ~h.views[v].bottom}}

\* C6: when a pass succeeds, the pass over the same rectangle of the tree
\* with its effectively hidden items deleted succeeds too and gives every
\* remaining item the same coordinates: hidden items move no cursor and add
\* to no sum.
C6_HiddenItemsTakeNoSpace ==
  PassDone =>
    LET h == layout(Pruned(root), Gui(ret.args.failing), 0, 0, ret.args.maxX - 1,
                    ret.args.maxY - 1, LayoutVisible, NoHost)
    IN /\ h.err = Nil
       /\ Placed(h) = Placed(ret.host)
       /\ Shown(h) = Shown(ret.host)

\* A completed pass of a Level with a hidden item of fixed size before a
\* visible item.
C6_Witness ==
  /\ PassDone
  /\ \E k \in DOMAIN Passes : \E i \in DOMAIN Passes[k].items :
       \E j \in DOMAIN Passes[k].items :
         /\ i < j /\ ~Passes[k].forceHidden
         /\ ~Passes[k].items[i].visible /\ Passes[k].items[i].fixed > 0
         /\ Passes[k].items[j].visible

\* -------------------------------------------------------------------- C8
OnPath(it, n) == it.name = n \/ (it.inner # <<>> /\ n \in LeafNames(it.inner[1]))

\* The Level at which the hiding of leaf n starts, going down from l: <<>>
\* when n is visible.
RECURSIVE HidingLevel(_, _)
HidingLevel(l, n) ==
  LET it == CHOOSE it \in Range(l.items) : OnPath(it, n) IN
  IF isHidden(it) THEN <<l>>
  ELSE IF it.inner = <<>> THEN <<>>
  ELSE HidingLevel(it.inner[1], n)

\* The call of layout made on Level l, entered visible: recognised by the
\* name of its first item.
PassOf(l) ==
  Passes[CHOOSE k \in DOMAIN Passes :
           Passes[k].items[1].name = l.items[1].name /\ ~Passes[k].forceHidden]

\* C8: on every successful pass every leaf has its view created exactly
\* once; a hidden leaf (own flag, or a hidden item above it) gets the whole
\* rectangle of the Level at which the hiding starts and is moved to the
\* bottom; a visible leaf is never moved to the bottom.
C8_EveryLeafMaterializedOnce ==
  PassDone =>
    \A n \in LeafNames(root) :
      /\ Cardinality({v \in DOMAIN Views : Views[v].name = n}) = 1
      /\ LET view == Views[CHOOSE v \in DOMAIN Views : Views[v].name = n]
             at == HidingLevel(root, n)
         IN IF at = <<>> THEN ~view.bottom
            ELSE LET p == PassOf(at[1]) IN
                 /\ view.bottom
                 /\ view.x0 = p.x0 /\ view.y0 = p.y0
                 /\ view.x1 = p.x1 /\ view.y1 = p.y1

\* A completed pass with "e" hidden through "d" or "b" and "a" visible.
C8_Witness ==
  /\ PassDone
  /\ ~Item(root, "e").hidden
  /\ HidingLevel(root, "e") # <<>>
  /\ HidingLevel(root, "a") = <<>>

\* -------------------------------------------------------------------- C9
\* Level k's visible items tile its rectangle along its axis.
Tiles(k) ==
  LET p == Passes[k]
      V == VisibleIdx(p)
      S(i) == SlotOf(k, p.items[i].name)
      start(i) == IF p.direction = LayoutHorizontal THEN S(i).x0 ELSE S(i).y0
      end(i) == IF p.direction = LayoutHorizontal THEN S(i).x1 ELSE S(i).y1
      first == CHOOSE i \in V : \A j \in V : i <= j
      last == CHOOSE i \in V : \A j \in V : j <= i
  IN /\ start(first) = AxisStart(p)
     /\ \A i \in V : \A j \in V :
          (i < j /\ \A m \in V : ~(i < m /\ m < j))
            => start(j) = start(i) + S(i).assignment
     /\ \A i \in V :
          end(i) = IF ~gui.SupportOverlaps THEN start(i) + S(i).assignment - 1
                   ELSE IF start(i) + S(i).assignment > AxisEnd(p) THEN AxisEnd(p)
                   ELSE start(i) + S(i).assignment
     /\ end(last) = AxisEnd(p)
     /\ \A i \in V :
          IF p.direction = LayoutHorizontal
          THEN S(i).y0 = p.y0 /\ S(i).y1 = p.y1
          ELSE S(i).x0 = p.x0 /\ S(i).x1 = p.x1

HasVisibleRatioItem(p) ==
  \E i \in VisibleIdx(p) : p.items[i].fixed = 0 /\ p.items[i].ratio > 0

\* C9 as claimed: on a successful pass, the visible items of a Level with at
\* least one visible ratio item tile its rectangle along its axis. A
\* negative size, which ResizeItem accepts, moves the cursor back: this
\* fails.
C9_VisibleItemsTile ==
  PassDone =>
    \A k \in DOMAIN Passes : HasVisibleRatioItem(Passes[k]) => Tiles(k)

\* C9, amended: on a successful pass, the visible items of a Level with at
\* least one visible ratio item and no visible item of negative fixed size
\* or negative weight tile its rectangle along its axis.
C9_VisibleItemsTileWithoutNegatives ==
  PassDone =>
    \A k \in DOMAIN Passes :
      /\ HasVisibleRatioItem(Passes[k])
      /\ \A i \in VisibleIdx(Passes[k]) :
           Passes[k].items[i].fixed >= 0 /\ Passes[k].items[i].ratio >= 0
      => Tiles(k)

\* A completed pass of a Level with a fixed and a ratio item visible and a
\* remainder given to the last.
C9_Witness ==
  /\ PassDone
  /\ \E k \in DOMAIN Passes :
       /\ HasVisibleRatioItem(Passes[k])
       /\ \A i \in VisibleIdx(Passes[k]) :
            Passes[k].items[i].fixed >= 0 /\ Passes[k].items[i].ratio >= 0
       /\ \E i \in VisibleIdx(Passes[k]) : Passes[k].items[i].fixed > 0
       /\ Cardinality(VisibleIdx(Passes[k])) >= 2
       /\ Passes[k].left > 0

\* ------------------------------------------------------------------- C10
\* C10: when a mutation of an item of the root Level interleaves with a pass
\* of that Level, the claims the pass assigns still total at most the
\* Level's length and every region starts and ends inside its rectangle.
\* Stated for a Level whose items are ratio items of positive weight when
\* the pass plans and when it returns. The second loop reads flags and
\* sizes the first loop did not see: this fails.
C10_RacedPassStaysInside ==
  (/\ PassDone /\ ret.raced
   /\ AllVisibleRatio([Passes[1] EXCEPT !.items =
                         [i \in DOMAIN @ |-> [@[i] EXCEPT !.visible = TRUE]]])
   /\ \A it \in Range(root.items) : it.fixed = 0 /\ it.ratio > 0)
  => LET p == Passes[1] IN
     /\ ClaimSum(1) <= AxisLen(p)
     /\ \A j \in SlotsOf(1) :
          /\ p.x0 <= Slots[j].x0 /\ Slots[j].x0 <= p.x1
          /\ p.x0 <= Slots[j].x1 /\ Slots[j].x1 <= p.x1
          /\ p.y0 <= Slots[j].y0 /\ Slots[j].y0 <= p.y1
          /\ p.y0 <= Slots[j].y1 /\ Slots[j].y1 <= p.y1

====
